---- MODULE Spec2Model ----
(***************************************************************************)
(* utube-transcript: audio acquisition (downloader.py), the transcription  *)
(* orchestrator (transcriber.py), credential lookup (utils.py), the        *)
(* command-line entry point (cli.py) and the prompt (interactive.py).      *)
(*                                                                         *)
(* Representation.  A Python float number of seconds is an integer number  *)
(* of milliseconds.  A Python str that the code only builds (timestamps,   *)
(* subtitle text) is a TLA+ string; a segment's text, which the code       *)
(* trims, is a sequence of one-character strings.  None is the string      *)
(* "None", or NoObject where an object is expected.  A call's outcome is   *)
(* a record whose field raised names the exception class that left the     *)
(* call, or "" when it returned.                                           *)
(***************************************************************************)
EXTENDS Integers, Sequences, FiniteSets, TLC

VARIABLES
    ffmpeg,        \* shutil.which('ffmpeg') finds the tool
    installed,     \* importable optional packages
    dotenv_file,   \* OPENAI_API_KEY as the .env file gives it, or None
    environ,       \* os.environ's OPENAI_API_KEY, or None
    files,         \* audio files present under output_dir
    attempted,     \* paths whose download step ran since their last cleanup
    fetched,       \* paths whose download step succeeded since then
    downloader,    \* the YouTubeDownloader object, or None
    transcriber,   \* the Transcriber object, or None
    ret,           \* outcome of the latest call
    sample,        \* the local engine's output in the formatting runs
    pc,            \* position of cli.main
    args,          \* argparse's namespace
    audio_path,    \* <<cli.main's local audio_path>>
    transcript,    \* <<cli.main's local transcript>>
    outfile,       \* the file at output_path
    status,        \* <<the process's exit status>>, <<>> while it runs
    stderr,        \* lines cli.main printed
    log            \* pipeline steps cli.main has started, in order

vars == <<ffmpeg, installed, dotenv_file, environ, files, attempted, fetched,
          downloader, transcriber, ret, sample, pc, args, audio_path,
          transcript, outfile, status, stderr, log>>

hostVars == <<ffmpeg, installed, dotenv_file>>
cliVars == <<pc, args, audio_path, transcript, outfile, status, stderr, log>>

None == "None"
\* None where an object (a record) is expected
NoObject == [class |-> "NoneType"]
\* A local variable, or the exit status, is <<>> before it is set and <<value>> after.
Unbound == <<>>

\* Longest engine output enumerated in the formatting runs.
MaxSegments == 2
\* Download steps counted per path between two cleanups of it.
MaxDownloads == 2

-----------------------------------------------------------------------------
(* Python string helpers *)

Digits == <<"0", "1", "2", "3", "4", "5", "6", "7", "8", "9">>

RECURSIVE Dec(_)
\* str(n) / format 'd' of a non-negative int
Dec(n) == IF n < 10 THEN Digits[n + 1] ELSE Dec(n \div 10) \o Digits[(n % 10) + 1]

RECURSIVE ZeroPad(_, _)
\* the '0<w>' part of a format spec: pad on the left to at least w characters
ZeroPad(s, w) == IF Len(s) >= w THEN s ELSE ZeroPad("0" \o s, w)

RECURSIVE Join(_, _)
\* sep.join(parts)
Join(parts, sep) ==
    IF Len(parts) = 0 THEN ""
    ELSE IF Len(parts) = 1 THEN parts[1]
    ELSE parts[1] \o sep \o Join(Tail(parts), sep)

RECURSIVE Str(_)
\* the str a sequence of characters stands for
Str(cs) == IF Len(cs) = 0 THEN "" ELSE cs[1] \o Str(Tail(cs))

Whitespace == {" ", "\n", "\t"}

RECURSIVE LStrip(_)
LStrip(cs) == IF Len(cs) > 0 /\ cs[1] \in Whitespace THEN LStrip(Tail(cs)) ELSE cs

RECURSIVE RStrip(_)
RStrip(cs) ==
    IF Len(cs) > 0 /\ cs[Len(cs)] \in Whitespace
    THEN RStrip(SubSeq(cs, 1, Len(cs) - 1))
    ELSE cs

\* str.strip()
Strip(cs) == RStrip(LStrip(cs))

RECURSIVE Concat(_)
\* the list that extend() builds from a sequence of lists
Concat(ss) == IF Len(ss) = 0 THEN <<>> ELSE ss[1] \o Concat(Tail(ss))

-----------------------------------------------------------------------------
(* transcriber.py: output shaping of the local backend *)

\* Transcriber._format_timestamp, on milliseconds
_format_timestamp(ms) ==
    LET hours   == ms \div 3600000
        minutes == (ms % 3600000) \div 60000
        seconds == ms % 60000
    IN  ZeroPad(Dec(hours), 2) \o ":" \o ZeroPad(Dec(minutes), 2) \o ":"
        \o ZeroPad(Dec(seconds \div 1000) \o "." \o ZeroPad(Dec(seconds % 1000), 3), 6)

\* What model.transcribe hands back as `segments`: faster_whisper yields the
\* segments from a generator, which can be walked once; a list can be walked
\* again.  An iterable is [items, oneShot, spent].
Iterable(items, kind) == [items |-> items, oneShot |-> (kind = "generator"), spent |-> FALSE]

\* One `for ... in segments`: the items it sees, and the iterable afterwards.
Walk(it) ==
    [seen  |-> IF it.oneShot /\ it.spent THEN <<>> ELSE it.items,
     after |-> [it EXCEPT !.spent = TRUE]]

SrtBlockLines(i, s) ==
    << Dec(i),
       _format_timestamp(s.start) \o " --> " \o _format_timestamp(s.end),
       Str(Strip(s.text)),
       "" >>

\* _transcribe_local with the text joined before the json branch is taken
_transcribe_local_JoinFirst(segments, output_format) ==
    LET first  == Walk(segments)
        second == Walk(first.after)
        text   == Join([i \in 1..Len(first.seen) |-> Str(first.seen[i].text)], " ")
    IN  IF output_format = "json"
        THEN [segments |-> [i \in 1..Len(second.seen) |->
                              [start |-> second.seen[i].start,
                               end   |-> second.seen[i].end,
                               text  |-> second.seen[i].text]]]
        ELSE IF output_format = "txt" THEN text
        ELSE Join(Concat([i \in 1..Len(second.seen) |->
                            << Dec(i), "", Str(second.seen[i].text), "" >>]), "\n")

\* Transcriber._transcribe_local after the engine has returned `segments`
_transcribe_local(segments, output_format) ==
    LET first  == Walk(segments)
        second == Walk(first.after)
        text   == Join([i \in 1..Len(first.seen) |-> Str(first.seen[i].text)], " ")
        srt_lines == Concat([i \in 1..Len(second.seen) |-> SrtBlockLines(i, second.seen[i])])
    IN  IF output_format = "json"
        THEN [segments |-> [i \in 1..Len(first.seen) |->
                              [start |-> first.seen[i].start,
                               end   |-> first.seen[i].end,
                               text  |-> first.seen[i].text]]]
        ELSE IF output_format = "txt" THEN text
        ELSE Join(srt_lines, "\n")

-----------------------------------------------------------------------------
(* Inputs *)

OutputFormats == {"txt", "srt", "json"}
IterableKinds == {"generator", "list"}

hello == <<"h", "e", "l", "l", "o">>
world == <<"w", "o", "r", "l", "d">>
TextSamples == {hello, world, <<" ", "h", "i", " ">>}
TimeSamples == {0, 1500, 3250, 3661500}

Segments == {s \in [start : TimeSamples, end : TimeSamples, text : TextSamples] :
                s.start <= s.end}

\* chronological engine outputs of at most n segments
Chronological(ss) == \A i \in 1..(Len(ss) - 1) : ss[i].end <= ss[i + 1].start
SegmentLists(n) ==
    UNION {{ss \in [1..k -> Segments] : Chronological(ss)} : k \in 0..n}

ExampleSegments ==
    << [start |-> 0, end |-> 1500, text |-> hello],
       [start |-> 1500, end |-> 3250, text |-> world] >>

-----------------------------------------------------------------------------
(* utils.py *)

Truthy(v) == v # None /\ v # ""

\* load_dotenv(): copies the .env value into os.environ unless the variable
\* is already set there; skipped when python-dotenv cannot be imported.
load_dotenv(env) ==
    IF "dotenv" \in installed /\ env = None /\ dotenv_file # None
    THEN dotenv_file
    ELSE env

\* get_env_var("OPENAI_API_KEY"): [value, environ afterwards]
get_env_var(env) ==
    LET loaded == load_dotenv(env)
    IN  [value |-> loaded, environ |-> loaded]

\* check_ffmpeg_installed()
check_ffmpeg_installed ==
    IF ffmpeg THEN [raised |-> "", value |-> TRUE]
              ELSE [raised |-> "RuntimeError", value |-> None]

-----------------------------------------------------------------------------
(* transcriber.py *)

Backends == {"openai", "local", "ollama"}

\* ResolveApiKey without the environment fallback
ResolveApiKey_ArgumentOnly(api_key, env) == [api_key |-> api_key, environ |-> env]

\* the credential Transcriber.__init__ settles on: [api_key, environ afterwards]
ResolveApiKey(api_key, env) ==
    IF Truthy(api_key)
    THEN [api_key |-> api_key, environ |-> env]
    ELSE LET e == get_env_var(env)
         IN  [api_key |-> e.value, environ |-> e.environ]

\* Transcriber.__init__(backend, api_key, language) with os.environ as env.
\* obj.model says whether the attribute self.model was set.
Transcriber__init__(backend, api_key, language, env) ==
    LET call == [op |-> "__init__", backend |-> backend, api_key |-> api_key,
                 language |-> language, network |-> FALSE]
        self == [backend |-> backend, language |-> language,
                 api_key |-> None, model |-> FALSE]
    IN  IF backend = "openai"
        THEN LET k == ResolveApiKey(api_key, env)
             IN  IF ~Truthy(k.api_key)
                 THEN [call |-> call, raised |-> "ValueError", obj |-> NoObject,
                       environ |-> k.environ]
                 ELSE [call |-> call, raised |-> "",
                       obj |-> [self EXCEPT !.api_key = k.api_key],
                       environ |-> k.environ]
        ELSE IF backend = "local"
        THEN IF "faster_whisper" \notin installed
             THEN [call |-> call, raised |-> "ImportError", obj |-> NoObject, environ |-> env]
             ELSE [call |-> call, raised |-> "",
                   obj |-> [self EXCEPT !.model = TRUE], environ |-> env]
        ELSE [call |-> call, raised |-> "", obj |-> self, environ |-> env]

\* Transcriber._transcribe_openai: one request to the provider, which answers
\* with `text` or fails
_transcribe_openai(output_format, text, ok) ==
    IF ~ok THEN [raised |-> "OpenAIError", value |-> None, invoked |-> "remote"]
    ELSE IF output_format = "json"
    THEN [raised |-> "", value |-> [text |-> text], invoked |-> "remote"]
    ELSE [raised |-> "", value |-> text, invoked |-> "remote"]

\* transcribe without the os.path.exists check
transcribe_Unchecked(self, path, output_format, fs, engine, ok) ==
    IF self.backend = "openai"
    THEN _transcribe_openai(output_format, engine.text, ok)
    ELSE IF ~self.model
    THEN [raised |-> "AttributeError", value |-> None, invoked |-> "none"]
    ELSE IF ~ok
    THEN [raised |-> "EngineError", value |-> None, invoked |-> "local"]
    ELSE [raised |-> "", value |-> _transcribe_local(engine.segments, output_format),
          invoked |-> "local"]

\* Transcriber.transcribe(path, output_format) on `self`, with the files in
\* fs on disk; engine is what the backend answers: text for
\* the provider, segments for the local model; ok: the backend call returns.
\* invoked names the backend the call reached.
transcribe(self, path, output_format, fs, engine, ok) ==
    IF path \notin fs
    THEN [raised |-> "FileNotFoundError", value |-> None, invoked |-> "none"]
    ELSE IF self.backend = "openai"
    THEN _transcribe_openai(output_format, engine.text, ok)
    ELSE IF ~self.model
    THEN [raised |-> "AttributeError", value |-> None, invoked |-> "none"]
    ELSE IF ~ok
    THEN [raised |-> "EngineError", value |-> None, invoked |-> "local"]
    ELSE [raised |-> "", value |-> _transcribe_local(engine.segments, output_format),
          invoked |-> "local"]

-----------------------------------------------------------------------------
(* downloader.py *)

Urls == {"https://youtu.be/a", "https://www.youtube.com/watch?v=a", "https://youtu.be/b"}
AudioFormats == {"mp3", "wav"}

\* info['id'] of extract_info(url, download=False)
VideoId(url) == IF url = "https://youtu.be/b" THEN "b" ELSE "a"
VideoIds == {VideoId(u) : u \in Urls}

output_dir == "/tmp"

\* os.path.join(self.output_dir, f"{video_id}.{preferred_format}")
OutputPath(video_id, preferred_format) ==
    output_dir \o "/" \o video_id \o "." \o preferred_format

AudioPaths == {OutputPath(v, f) : v \in VideoIds, f \in AudioFormats}
\* the paths of cli.main, which keeps the default preferred_format
Mp3Paths == {OutputPath(v, "mp3") : v \in VideoIds}

\* YouTubeDownloader.__init__()
YouTubeDownloader__init__ ==
    IF check_ffmpeg_installed.raised # ""
    THEN [raised |-> check_ffmpeg_installed.raised, obj |-> NoObject]
    ELSE [raised |-> "", obj |-> [output_dir |-> output_dir]]

\* download_audio without the os.path.exists test before ydl.download
download_audio_Always(url, preferred_format, fs, infoOk, dlOk) ==
    LET output_path == OutputPath(VideoId(url), preferred_format)
    IN  IF ~infoOk
        THEN [raised |-> "RuntimeError", value |-> None, files |-> fs,
              looked_up |-> TRUE, downloaded |-> FALSE]
        ELSE IF ~dlOk
        THEN [raised |-> "RuntimeError", value |-> None, files |-> fs,
              looked_up |-> TRUE, downloaded |-> TRUE]
        ELSE [raised |-> "", value |-> output_path, files |-> fs \cup {output_path},
              looked_up |-> TRUE, downloaded |-> TRUE]

\* YouTubeDownloader.download_audio(url, preferred_format) with the files in
\* fs on disk.  infoOk: extract_info returns; dlOk: ydl.download returns,
\* leaving the transcoded file.  looked_up / downloaded: the metadata lookup /
\* the download step was invoked.
download_audio(url, preferred_format, fs, infoOk, dlOk) ==
    LET output_path == OutputPath(VideoId(url), preferred_format)
    IN  IF ~infoOk
        THEN [raised |-> "RuntimeError", value |-> None, files |-> fs,
              looked_up |-> TRUE, downloaded |-> FALSE]
        ELSE IF output_path \in fs
        THEN [raised |-> "", value |-> output_path, files |-> fs,
              looked_up |-> TRUE, downloaded |-> FALSE]
        ELSE IF ~dlOk
        THEN [raised |-> "RuntimeError", value |-> None, files |-> fs,
              looked_up |-> TRUE, downloaded |-> TRUE]
        ELSE [raised |-> "", value |-> output_path, files |-> fs \cup {output_path},
              looked_up |-> TRUE, downloaded |-> TRUE]

\* cleanup without the try/except around os.remove
cleanup_Unguarded(filepath, fs, rmOk) ==
    IF filepath \notin fs
    THEN [raised |-> "", files |-> fs, removed |-> FALSE, warning |-> FALSE]
    ELSE IF rmOk
    THEN [raised |-> "", files |-> fs \ {filepath}, removed |-> TRUE, warning |-> FALSE]
    ELSE [raised |-> "OSError", files |-> fs, removed |-> FALSE, warning |-> FALSE]

\* YouTubeDownloader.cleanup(filepath) with the files in fs on disk.
\* rmOk: os.remove succeeds; otherwise it raises OSError, which is caught.
cleanup(filepath, fs, rmOk) ==
    IF filepath \notin fs
    THEN [raised |-> "", files |-> fs, removed |-> FALSE, warning |-> FALSE]
    ELSE IF rmOk
    THEN [raised |-> "", files |-> fs \ {filepath}, removed |-> TRUE, warning |-> FALSE]
    ELSE [raised |-> "", files |-> fs, removed |-> FALSE, warning |-> TRUE]

-----------------------------------------------------------------------------
(* Hosts the program runs on *)

ApiKeys == {None, "", "sk-arg"}
Languages == {None, "en"}
Packages == {"dotenv", "faster_whisper"}

NoCall == [op |-> "", raised |-> ""]

HostInit ==
    /\ ffmpeg \in BOOLEAN
    /\ installed \in SUBSET Packages
    /\ dotenv_file \in {None, "sk-file"}
    /\ environ \in {None, "", "sk-env"}

NoDownloads ==
    /\ attempted = [p \in AudioPaths |-> 0]
    /\ fetched = [p \in AudioPaths |-> 0]
    /\ downloader = NoObject

CliIdle ==
    /\ pc = "idle"
    /\ args = NoObject
    /\ audio_path = Unbound
    /\ transcript = Unbound
    /\ outfile = NoObject
    /\ status = Unbound
    /\ stderr = <<>>
    /\ log = <<>>

Idle ==
    /\ NoDownloads
    /\ transcriber = NoObject
    /\ ret = NoCall
    /\ sample = NoObject
    /\ CliIdle

-----------------------------------------------------------------------------
(* Spec: a program using the Transcriber class *)

RemoteAnswers == {[text |-> "hello world"], [text |-> ""]}
LocalAnswers ==
    {[segments |-> Iterable(ss, k)] : ss \in {<<>>, ExampleSegments}, k \in IterableKinds}

\* what the backend of `self` can answer
Answers(self) == IF self.backend = "openai" THEN RemoteAnswers ELSE LocalAnswers

Init ==
    /\ HostInit
    /\ ffmpeg = TRUE
    /\ files \in SUBSET Mp3Paths
    /\ Idle

\* transcriber = Transcriber(backend, api_key, language)
NewTranscriber ==
    \E backend \in Backends, api_key \in ApiKeys, language \in Languages :
        LET r == Transcriber__init__(backend, api_key, language, environ)
        IN  /\ transcriber' = IF r.raised = "" THEN r.obj ELSE transcriber
            /\ environ' = r.environ
            /\ ret' = [op |-> "__init__", raised |-> r.raised, call |-> r.call,
                       before |-> environ]
            /\ UNCHANGED <<hostVars, files, attempted, fetched, downloader, sample, cliVars>>

\* transcriber.transcribe(path, output_format)
Transcribe ==
    /\ transcriber # NoObject
    /\ \E path \in Mp3Paths, output_format \in OutputFormats,
          engine \in Answers(transcriber), ok \in BOOLEAN :
        LET r == transcribe(transcriber, path, output_format, files, engine, ok)
        IN  ret' = [op |-> "transcribe", raised |-> r.raised, value |-> r.value,
                    invoked |-> r.invoked, path |-> path,
                    output_format |-> output_format, self |-> transcriber]
    /\ UNCHANGED <<hostVars, environ, files, attempted, fetched, downloader,
                   transcriber, sample, cliVars>>

Next == NewTranscriber \/ Transcribe

Spec == Init /\ [][Next]_vars

-----------------------------------------------------------------------------
(* Claims about the Transcriber class, under Spec *)

\* C1: transcribe on a path that is not on disk fails with FileNotFoundError,
\* whatever the backend and the output format, and reaches no backend.
C1_MissingAudioFails ==
    (ret.op = "transcribe" /\ ret.path \notin files)
        => (ret.raised = "FileNotFoundError" /\ ret.invoked = "none")

\* C1 witness: an openai Transcriber asked for srt from a missing file.
C1_Witness ==
    /\ ret.op = "transcribe"
    /\ ret.path \notin files
    /\ ret.self.backend = "openai"
    /\ ret.output_format = "srt"
    /\ ret.raised = "FileNotFoundError"

\* a credential exists somewhere: the argument, os.environ or the .env file
CredentialPresent(api_key, env) ==
    (api_key \notin {None, ""}) \/ (env \notin {None, ""}) \/ (dotenv_file \notin {None, ""})

\* what the environment offers: os.environ first, the .env file when the
\* variable is unset and python-dotenv is there to read it
EnvironmentCredential(env) ==
    IF env = None /\ "dotenv" \in installed THEN dotenv_file ELSE env

\* the credential the documented order (argument, then environment) gives
DocumentedCredential(api_key, env) ==
    IF api_key \notin {None, ""} THEN api_key ELSE EnvironmentCredential(env)

\* C2: Transcriber("openai", ...) raises ValueError, with no network call, when
\* no credential is present anywhere; it raises ValueError exactly when none is
\* resolvable, and otherwise is constructed holding the argument if given,
\* else the environment's value.
C2_CredentialAtConstruction ==
    (ret.op = "__init__" /\ ret.call.backend = "openai")
        => LET k == DocumentedCredential(ret.call.api_key, ret.before)
           IN  /\ ~CredentialPresent(ret.call.api_key, ret.before)
                    => (ret.raised = "ValueError" /\ ~ret.call.network)
               /\ (ret.raised = "ValueError") <=> (k \in {None, ""})
               /\ (k \notin {None, ""})
                    => (ret.raised = "" /\ transcriber.backend = "openai"
                        /\ transcriber.api_key = k)

\* C2 witness: no argument, nothing in os.environ, no .env value: ValueError.
C2_Witness ==
    /\ ret.op = "__init__"
    /\ ret.call.backend = "openai"
    /\ ret.call.api_key = None
    /\ ret.before = None
    /\ dotenv_file = None
    /\ ret.raised = "ValueError"

UnsupportedErrors == {"NotImplementedError", "Unsupported"}

\* C7: the ollama backend always fails with an Unsupported error, at
\* construction or at transcribe: a transcribe that was reached on an ollama
\* Transcriber, for an audio file that exists, raises that error.
C7_PlaceholderUnsupported ==
    (ret.op = "transcribe" /\ ret.self.backend = "ollama" /\ ret.path \in files)
        => ret.raised \in UnsupportedErrors

-----------------------------------------------------------------------------
(* FormatSpec: a local Transcriber shaping the engine's output *)

SampleAudio == OutputPath("a", "mp3")

FormatInit ==
    /\ ffmpeg = TRUE
    /\ installed = Packages
    /\ dotenv_file = None
    /\ environ = None
    /\ files = {SampleAudio}
    /\ NoDownloads
    /\ transcriber = Transcriber__init__("local", None, None, environ).obj
    /\ ret = NoCall
    /\ sample \in {Iterable(ss, k) : ss \in SegmentLists(MaxSegments), k \in IterableKinds}
    /\ CliIdle

\* transcriber.transcribe(SampleAudio, output_format), the engine answering sample
TranscribeSample ==
    /\ \E output_format \in OutputFormats :
        LET r == transcribe(transcriber, SampleAudio, output_format, files,
                            [segments |-> sample], TRUE)
        IN  ret' = [op |-> "transcribe", raised |-> r.raised, value |-> r.value,
                    invoked |-> r.invoked, path |-> SampleAudio,
                    output_format |-> output_format, self |-> transcriber]
    /\ UNCHANGED <<hostVars, environ, files, attempted, fetched, downloader,
                   transcriber, sample, cliVars>>

FormatNext == TranscribeSample

FormatSpec == FormatInit /\ [][FormatNext]_vars

-----------------------------------------------------------------------------
(* Claims about the local backend's output, under FormatSpec *)

LocalResult(output_format) ==
    /\ ret.op = "transcribe"
    /\ ret.self.backend = "local"
    /\ ret.raised = ""
    /\ ret.output_format = output_format

RECURSIVE SrtBlocks(_, _)
\* blocks i, i+1, ... for the segments ss, each
\* '<index>\n<start> --> <end>\n<trimmed text>\n\n'
SrtBlocks(ss, i) ==
    IF Len(ss) = 0 THEN ""
    ELSE Dec(i) \o "\n" \o _format_timestamp(ss[1].start) \o " --> "
         \o _format_timestamp(ss[1].end) \o "\n" \o Str(Strip(ss[1].text)) \o "\n\n"
         \o SrtBlocks(Tail(ss), i + 1)

\* C4: for the local backend, srt is the concatenation of one numbered block
\* per segment the engine produced, in order; the segments (0.0,1.5,'hello'),
\* (1.5,3.25,'world') give the two blocks quoted in the specification.
C4_SrtOneBlockPerSegment ==
    LocalResult("srt")
        => /\ ret.value = SrtBlocks(sample.items, 1)
           /\ sample.items = ExampleSegments
                => ret.value = "1\n00:00:00.000 --> 00:00:01.500\nhello\n\n"
                                \o "2\n00:00:01.500 --> 00:00:03.250\nworld\n\n"

RECURSIVE SpaceSeparated(_)
\* the segments' texts in order, one space between neighbours
SpaceSeparated(ss) ==
    IF Len(ss) = 0 THEN ""
    ELSE Str(ss[1].text) \o (IF Len(ss) = 1 THEN "" ELSE " " \o SpaceSeparated(Tail(ss)))

\* C5: for the local backend, txt is the segments' texts in order joined by
\* single spaces, and json is {'segments': [...]} with one {start, end, text}
\* entry per segment, in order, values unchanged; the example segments give
\* 'hello world' and two entries.
C5_TxtAndJson ==
    /\ LocalResult("txt")
        => /\ ret.value = SpaceSeparated(sample.items)
           /\ sample.items = ExampleSegments => ret.value = "hello world"
    /\ LocalResult("json")
        => /\ DOMAIN ret.value = {"segments"}
           /\ Len(ret.value.segments) = Len(sample.items)
           /\ \A i \in 1..Len(sample.items) :
                /\ DOMAIN ret.value.segments[i] = {"start", "end", "text"}
                /\ ret.value.segments[i].start = sample.items[i].start
                /\ ret.value.segments[i].end = sample.items[i].end
                /\ ret.value.segments[i].text = sample.items[i].text

\* C5 witness: json from the example segments, which a generator yielded.
C5_Witness ==
    /\ LocalResult("json")
    /\ sample.oneShot
    /\ sample.items = ExampleSegments
    /\ Len(ret.value.segments) = 2

-----------------------------------------------------------------------------
(* DownloaderSpec: a program using the YouTubeDownloader class *)

DownloaderInit ==
    /\ ffmpeg \in BOOLEAN
    /\ installed = {}
    /\ dotenv_file = None
    /\ environ = None
    /\ files \in SUBSET AudioPaths
    /\ Idle

\* downloader = YouTubeDownloader()
NewDownloader ==
    LET r == YouTubeDownloader__init__
    IN  /\ downloader' = IF r.raised = "" THEN r.obj ELSE downloader
        /\ ret' = [op |-> "YouTubeDownloader", raised |-> r.raised]
        /\ UNCHANGED <<hostVars, environ, files, attempted, fetched, transcriber,
                       sample, cliVars>>

\* downloader.download_audio(url, preferred_format)
DownloadAudio ==
    /\ downloader # NoObject
    /\ \E url \in Urls, preferred_format \in AudioFormats, infoOk \in BOOLEAN, dlOk \in BOOLEAN :
        LET r == download_audio(url, preferred_format, files, infoOk, dlOk)
            p == OutputPath(VideoId(url), preferred_format)
        IN  /\ r.downloaded => attempted[p] < MaxDownloads
            /\ files' = r.files
            /\ attempted' = IF r.downloaded THEN [attempted EXCEPT ![p] = @ + 1] ELSE attempted
            /\ fetched' = IF r.downloaded /\ p \in r.files
                          THEN [fetched EXCEPT ![p] = @ + 1] ELSE fetched
            /\ ret' = [op |-> "download_audio", raised |-> r.raised, value |-> r.value,
                       looked_up |-> r.looked_up, downloaded |-> r.downloaded,
                       url |-> url, preferred_format |-> preferred_format,
                       infoOk |-> infoOk, before |-> files]
    /\ UNCHANGED <<hostVars, environ, downloader, transcriber, sample, cliVars>>

\* downloader.cleanup(filepath)
Cleanup ==
    /\ downloader # NoObject
    /\ \E filepath \in AudioPaths, rmOk \in BOOLEAN :
        LET r == cleanup(filepath, files, rmOk)
        IN  /\ files' = r.files
            /\ attempted' = [attempted EXCEPT ![filepath] = 0]
            /\ fetched' = [fetched EXCEPT ![filepath] = 0]
            /\ ret' = [op |-> "cleanup", raised |-> r.raised, warning |-> r.warning,
                       filepath |-> filepath, rmOk |-> rmOk, before |-> files]
    /\ UNCHANGED <<hostVars, environ, downloader, transcriber, sample, cliVars>>

DownloaderNext == NewDownloader \/ DownloadAudio \/ Cleanup

DownloaderSpec == DownloaderInit /\ [][DownloaderNext]_vars

-----------------------------------------------------------------------------
(* Claims about the YouTubeDownloader class, under DownloaderSpec *)

\* the path download_audio(url, preferred_format) is about
KeyOf(call) == output_dir \o "/" \o VideoId(call.url) \o "." \o call.preferred_format

\* a download_audio call that found the metadata and the file already there
\* looked the metadata up, did not invoke the download step, returned the path
SkipsWhenPresent ==
    (ret.op = "download_audio" /\ ret.infoOk /\ KeyOf(ret) \in ret.before)
        => /\ ret.looked_up
           /\ ~ret.downloaded
           /\ ret.raised = ""
           /\ ret.value = KeyOf(ret)
           /\ files = ret.before

\* C3 as stated: the file being there makes download_audio skip the download
\* step, and repeated calls without a cleanup in between perform the download
\* step at most once per (video id, format).
C3_DownloadStepAtMostOnce ==
    /\ SkipsWhenPresent
    /\ \A p \in AudioPaths : attempted[p] <= 1

\* C3 amended: the file being there makes download_audio skip the download
\* step, and in repeated calls without a cleanup in between at most one
\* download step per (video id, format) leaves the file at the path: no
\* download step follows it.
C3_Idempotent ==
    /\ SkipsWhenPresent
    /\ \A p \in AudioPaths :
        /\ fetched[p] <= 1
        /\ fetched[p] = 1 => p \in files

\* C3 witness: a call, by the long url of video a, for the wav file that an
\* earlier call downloaded.
C3_Witness ==
    /\ ret.op = "download_audio"
    /\ ret.url = "https://www.youtube.com/watch?v=a"
    /\ ret.preferred_format = "wav"
    /\ fetched[OutputPath("a", "wav")] = 1
    /\ ~ret.downloaded
    /\ ret.value = OutputPath("a", "wav")

\* C6: cleanup never raises; on a path that is not there it changes nothing;
\* on a file that is there it removes it, so that the file no longer exists,
\* unless os.remove fails, which is printed as a warning and not raised.
C6_CleanupNeverRaises ==
    ret.op = "cleanup"
        => /\ ret.raised = ""
           /\ ret.filepath \notin ret.before => (files = ret.before /\ ~ret.warning)
           /\ (ret.filepath \in ret.before /\ ret.rmOk)
                => (ret.filepath \notin files /\ files = ret.before \ {ret.filepath}
                    /\ ~ret.warning)
           /\ (ret.filepath \in ret.before /\ ~ret.rmOk)
                => (ret.warning /\ files = ret.before)

\* C6 witness: os.remove failed on an existing file and cleanup returned.
C6_Witness ==
    /\ ret.op = "cleanup"
    /\ ret.filepath \in ret.before
    /\ ~ret.rmOk
    /\ ret.warning
    /\ ret.raised = ""

-----------------------------------------------------------------------------
(* cli.py: one run of main *)

\* the same with the audio file cleaned up before it is transcribed
StepAfter_CleanupEarly(step) ==
    CASE step = "preflight"  -> "downloader"
      [] step = "downloader" -> "download"
      [] step = "download"   -> "construct"
      [] step = "construct"  -> "cleanup"
      [] step = "cleanup"    -> "transcribe"
      [] step = "transcribe" -> "write"
      [] step = "write"      -> "done"

\* the statement main reaches when `step` returns
StepAfter(step) ==
    CASE step = "preflight"  -> "downloader"
      [] step = "downloader" -> "download"
      [] step = "download"   -> "construct"
      [] step = "construct"  -> "transcribe"
      [] step = "transcribe" -> "cleanup"
      [] step = "cleanup"    -> "write"
      [] step = "write"      -> "done"

\* an exception handler that reports and still exits 0
ExitStatus_AlwaysZero(raised) == 0

\* the exit status: sys.exit(1) in the handler, 0 when main returns
ExitStatus(raised) == IF raised = "" THEN 0 ELSE 1

\* output_path = args.output or f"transcript.{args.format}"
output_path(a) == IF Truthy(a.output) THEN a.output ELSE "transcript." \o a.format

\* json.dump(transcript, f, ...) or f.write(transcript)
Serialized(a, value) ==
    [encoding |-> IF a.format = "json" THEN "json" ELSE "text", of |-> value]

\* `with open(output_path, "w") as f:` and the write in it.  io: open fails;
\* the write fails with nothing or with a part of the text in the file; or
\* all of it is written.
WriteOutput(a, value, old, io) ==
    IF io = "open_fails"
    THEN [raised |-> "OSError", outfile |-> old]
    ELSE IF io = "write_fails_empty"
    THEN [raised |-> "OSError",
          outfile |-> [path |-> output_path(a), state |-> "empty", data |-> <<>>]]
    ELSE IF io = "write_fails_partial"
    THEN [raised |-> "OSError",
          outfile |-> [path |-> output_path(a), state |-> "partial", data |-> <<>>]]
    ELSE [raised |-> "",
          outfile |-> [path |-> output_path(a), state |-> "full",
                       data |-> <<Serialized(a, value)>>]]

IoOutcomes == {"open_fails", "write_fails_empty", "write_fails_partial", "ok"}

\* argparse's namespace; --backend is one of its two choices
Namespaces ==
    [url : {"https://youtu.be/a"}, output : {None, "out.txt"},
     backend : {"openai", "local"}, format : OutputFormats,
     language : Languages, api_key : {None, "sk-arg"}]

\* the file at output_path before the run: not there, or there with old text
OutfilesBefore ==
    {[path |-> None, state |-> "absent", data |-> <<>>],
     [path |-> None, state |-> "old", data |-> <<>>]}

CliInit ==
    /\ HostInit
    /\ files \in SUBSET {OutputPath("a", "mp3")}
    /\ NoDownloads
    /\ transcriber = NoObject
    /\ ret = NoCall
    /\ sample = NoObject
    /\ pc = "preflight"
    /\ args \in Namespaces
    /\ audio_path = Unbound
    /\ transcript = Unbound
    /\ outfile \in OutfilesBefore
    /\ status = Unbound
    /\ stderr = <<>>
    /\ log = <<>>

\* What follows a statement of the try block: the next statement, or, when it
\* raised, the handler (cli.py:93-95), which prints the error and exits.
Proceed(step, raised, warning, printed) ==
    /\ log' = Append(log, [step |-> step, raised |-> raised, warning |-> warning])
    /\ IF raised # ""
       THEN /\ pc' = "done"
            /\ status' = <<ExitStatus(raised)>>
            /\ stderr' = stderr \o printed \o <<"Error: " \o raised>>
       ELSE /\ pc' = StepAfter(step)
            /\ status' = IF StepAfter(step) = "done" THEN <<ExitStatus(raised)>> ELSE status
            /\ stderr' = stderr \o printed

\* check_ffmpeg_installed()
CliPreflight ==
    /\ pc = "preflight"
    /\ LET r == check_ffmpeg_installed
       IN  /\ ret' = [op |-> "check_ffmpeg_installed", raised |-> r.raised]
           /\ Proceed("preflight", r.raised, FALSE, <<>>)
    /\ UNCHANGED <<hostVars, environ, files, attempted, fetched, downloader,
                   transcriber, sample, args, audio_path, transcript, outfile>>

\* downloader = YouTubeDownloader()
CliNewDownloader ==
    /\ pc = "downloader"
    /\ LET r == YouTubeDownloader__init__
       IN  /\ downloader' = IF r.raised = "" THEN r.obj ELSE downloader
           /\ ret' = [op |-> "YouTubeDownloader", raised |-> r.raised]
           /\ Proceed("downloader", r.raised, FALSE, <<>>)
    /\ UNCHANGED <<hostVars, environ, files, attempted, fetched,
                   transcriber, sample, args, audio_path, transcript, outfile>>

\* audio_path = downloader.download_audio(args.url)
CliDownload ==
    /\ pc = "download"
    /\ \E infoOk \in BOOLEAN, dlOk \in BOOLEAN :
        LET r == download_audio(args.url, "mp3", files, infoOk, dlOk)
            p == OutputPath(VideoId(args.url), "mp3")
        IN  /\ files' = r.files
            /\ attempted' = IF r.downloaded THEN [attempted EXCEPT ![p] = @ + 1] ELSE attempted
            /\ fetched' = IF r.downloaded /\ p \in r.files
                          THEN [fetched EXCEPT ![p] = @ + 1] ELSE fetched
            /\ audio_path' = IF r.raised = "" THEN <<r.value>> ELSE audio_path
            /\ ret' = [op |-> "download_audio", raised |-> r.raised, value |-> r.value,
                       looked_up |-> r.looked_up, downloaded |-> r.downloaded,
                       url |-> args.url, preferred_format |-> "mp3",
                       infoOk |-> infoOk, before |-> files]
            /\ Proceed("download", r.raised, FALSE, <<"Downloading audio...">>)
    /\ UNCHANGED <<hostVars, environ, downloader, transcriber, sample, args,
                   transcript, outfile>>

\* transcriber = Transcriber(backend=args.backend, api_key=args.api_key,
\*                           language=args.language)
CliNewTranscriber ==
    /\ pc = "construct"
    /\ LET r == Transcriber__init__(args.backend, args.api_key, args.language, environ)
       IN  /\ transcriber' = IF r.raised = "" THEN r.obj ELSE transcriber
           /\ environ' = r.environ
           /\ ret' = [op |-> "__init__", raised |-> r.raised, call |-> r.call,
                      before |-> environ]
           /\ Proceed("construct", r.raised, FALSE, <<"Transcribing...">>)
    /\ UNCHANGED <<hostVars, files, attempted, fetched, downloader, sample, args,
                   audio_path, transcript, outfile>>

\* transcript = transcriber.transcribe(audio_path, output_format=args.format)
CliTranscribe ==
    /\ pc = "transcribe"
    /\ \E engine \in Answers(transcriber), ok \in BOOLEAN :
        LET r == transcribe(transcriber, audio_path[1], args.format, files, engine, ok)
        IN  /\ transcript' = IF r.raised = "" THEN <<r.value>> ELSE transcript
            /\ ret' = [op |-> "transcribe", raised |-> r.raised, value |-> r.value,
                       invoked |-> r.invoked, path |-> audio_path[1],
                       output_format |-> args.format, self |-> transcriber]
            /\ Proceed("transcribe", r.raised, FALSE, <<>>)
    /\ UNCHANGED <<hostVars, environ, files, attempted, fetched, downloader,
                   transcriber, sample, args, audio_path, outfile>>

\* downloader.cleanup(audio_path)
CliCleanup ==
    /\ pc = "cleanup"
    /\ \E rmOk \in BOOLEAN :
        LET r == cleanup(audio_path[1], files, rmOk)
        IN  /\ files' = r.files
            /\ attempted' = [attempted EXCEPT ![audio_path[1]] = 0]
            /\ fetched' = [fetched EXCEPT ![audio_path[1]] = 0]
            /\ ret' = [op |-> "cleanup", raised |-> r.raised, warning |-> r.warning,
                       filepath |-> audio_path[1], rmOk |-> rmOk, before |-> files]
            /\ Proceed("cleanup", r.raised, r.warning,
                       IF r.warning THEN <<"Warning: Failed to remove temporary file">>
                                    ELSE <<>>)
    /\ UNCHANGED <<hostVars, environ, downloader, transcriber, sample, args,
                   audio_path, transcript, outfile>>

\* the output file is opened and written, and "Transcript saved to" printed
CliWrite ==
    /\ pc = "write"
    /\ \E io \in IoOutcomes :
        LET r == WriteOutput(args, transcript[1], outfile, io)
        IN  /\ outfile' = r.outfile
            /\ ret' = [op |-> "write", raised |-> r.raised]
            /\ Proceed("write", r.raised, FALSE,
                       IF r.raised = "" THEN <<"Transcript saved to: " \o output_path(args)>>
                                        ELSE <<>>)
    /\ UNCHANGED <<hostVars, environ, files, attempted, fetched, downloader,
                   transcriber, sample, args, audio_path, transcript>>

CliNext ==
    \/ CliPreflight
    \/ CliNewDownloader
    \/ CliDownload
    \/ CliNewTranscriber
    \/ CliTranscribe
    \/ CliCleanup
    \/ CliWrite

CliSpec == CliInit /\ [][CliNext]_vars

-----------------------------------------------------------------------------
(* Claims about a run of cli.main, under CliSpec *)

Started(step) == \E i \in 1..Len(log) : log[i].step = step
Returned(step) == \E i \in 1..Len(log) : log[i].step = step /\ log[i].raised = ""

\* acquisition, construction, transcription, cleanup and write, one after the other
ClaimedOrder ==
    <<"preflight", "downloader", "download", "construct", "transcribe", "cleanup", "write">>

\* C8: the steps of a run start in strict sequence, none twice, each only
\* after the one before it has returned: transcription after download_audio
\* returned a path, cleanup and the output write after transcribe returned.
C8_StrictSequence ==
    /\ Len(log) <= Len(ClaimedOrder)
    /\ \A i \in 1..Len(log) : log[i].step = ClaimedOrder[i]
    /\ \A i \in 1..(Len(log) - 1) : log[i].raised = ""
    /\ Started("transcribe")
        => (Returned("download") /\ audio_path # Unbound /\ audio_path[1] \in AudioPaths)
    /\ Started("cleanup") => (Returned("transcribe") /\ transcript # Unbound)
    /\ Started("write") => (Returned("transcribe") /\ transcript # Unbound)
    /\ outfile.state \notin {"absent", "old"} => Returned("transcribe")

\* C8 witness: a run that went through all the steps and wrote the transcript.
C8_Witness ==
    /\ pc = "done"
    /\ status = <<0>>
    /\ Len(log) = Len(ClaimedOrder)
    /\ outfile.state = "full"

\* C9: a finished run either succeeded with the whole transcript in the output
\* file, or failed and left the output file as it was: not created, not
\* truncated, not partially written.
C9_NoPartialSuccess ==
    pc = "done"
        => \/ /\ status = <<0>>
              /\ transcript # Unbound
              /\ outfile.state = "full"
              /\ outfile.data = <<Serialized(args, transcript[1])>>
           \/ /\ status = <<1>>
              /\ outfile.state \in {"absent", "old"}

\* C10: an error raised by a step ends the run there: it is printed and the
\* exit status is non-zero; no step runs twice; the only failure handled in
\* place is cleanup's failed deletion, a warning after which the run goes on
\* and, when nothing else fails, exits 0.
C10_ErrorsSurface ==
    /\ \A i \in 1..Len(log) :
        /\ log[i].raised # ""
            => /\ i = Len(log)
               /\ pc = "done"
               /\ status # Unbound /\ status # <<0>>
               /\ Len(stderr) > 0
               /\ stderr[Len(stderr)] = "Error: " \o log[i].raised
        /\ log[i].warning => (log[i].step = "cleanup" /\ log[i].raised = "")
        /\ \A j \in 1..Len(log) : log[i].step = log[j].step => i = j
    /\ ret.raised # "" => (Len(log) > 0 /\ log[Len(log)].raised = ret.raised)
    /\ (pc = "done" /\ \A i \in 1..Len(log) : log[i].raised = "") => status = <<0>>

\* C10 witness: the deletion failed in cleanup, the run went on, and the
\* output write then failed: exit status 1.
C10_Witness ==
    /\ pc = "done"
    /\ status = <<1>>
    /\ Len(log) = 7
    /\ log[6].step = "cleanup" /\ log[6].warning
    /\ log[7].step = "write" /\ log[7].raised = "OSError"

\* C11: when the process exits, every run in which download_audio returned a
\* path has called cleanup on that path, whether the steps after the download
\* succeeded or failed.
C11_CleanupBeforeExit ==
    (pc = "done" /\ Returned("download"))
        => /\ Started("cleanup")
           /\ ret.op = "cleanup" \/ Returned("cleanup")

\* C12: a run with the openai backend and no resolvable credential that ends
\* with the missing-credential error has performed neither the metadata
\* lookup nor the download.
C12_CredentialBeforeNetwork ==
    (/\ pc = "done"
     /\ args.backend = "openai"
     /\ DocumentedCredential(args.api_key, environ) \in {None, ""}
     /\ ret.raised = "ValueError")
        => /\ ~Started("download")
           /\ \A p \in AudioPaths : attempted[p] = 0

-----------------------------------------------------------------------------
(* InteractiveSpec: a run of interactive.py as a script *)

\* format_map.get(format_choice, "txt")
format_map(format_choice) ==
    CASE format_choice = "1" -> "txt"
      [] format_choice = "2" -> "srt"
      [] format_choice = "3" -> "json"
      [] OTHER -> "txt"

\* the backend the if/elif/else picks for the answer
backend_choice_of(choice) ==
    IF choice = "1" THEN "openai" ELSE IF choice = "2" THEN "local" ELSE "ollama"

\* What the user types at a prompt, as a sequence of pieces: a blank or a
\* run of other characters.
TypedUrls == {<<"https://youtu.be/a">>, <<" ", "https://youtu.be/a">>}
TypedChoices == {<<>>, <<"1">>, <<"2", " ">>, <<"3">>, <<"9">>}
TypedFilenames == {<<>>, <<"out.txt">>}
TypedLanguages == {<<>>, <<"en">>}
TypedKeys == {<<>>, <<"sk-typed">>}

TypedAnswers ==
    [url : TypedUrls, format_choice : TypedChoices, output_file : TypedFilenames,
     backend_choice : TypedChoices, language : TypedLanguages, api_key : TypedKeys]

\* input(...).strip()
Input(typed) == Str(Strip(typed))

\* prompt_for_input() with `typed` at the prompts, env in os.environ and
\* env_file the OPENAI_API_KEY line of the .env file.  interrupted: the user
\* presses Ctrl-C at a prompt.  readable: open(env_path, 'r') succeeds.
\* Gives [raised, value, environ, dotenv_file].
prompt_for_input(typed, env, env_file, interrupted, readable) ==
    LET url            == Input(typed.url)
        output_format  == format_map(Input(typed.format_choice))
        default_filename == "transcript." \o output_format
        answered       == Input(typed.output_file)
        output_file    == IF answered = "" THEN default_filename ELSE answered
        backend        == backend_choice_of(Input(typed.backend_choice))
        language       == Input(typed.language)
        asks           == backend = "openai" /\ ~Truthy(env)
        entered        == Input(typed.api_key)
        api_key        == IF backend # "openai" THEN None
                          ELSE IF asks THEN entered ELSE env
    IN  IF interrupted
        THEN [raised |-> "KeyboardInterrupt", value |-> NoObject,
              environ |-> env, dotenv_file |-> env_file]
        ELSE IF asks /\ ~readable
        THEN [raised |-> "FileNotFoundError", value |-> NoObject,
              environ |-> env, dotenv_file |-> env_file]
        ELSE [raised |-> "",
              value |-> [url |-> url, format |-> output_format,
                         output |-> output_file, backend |-> backend,
                         language |-> IF language # "" THEN language ELSE None,
                         api_key |-> api_key],
              environ |-> IF asks THEN entered ELSE env,
              dotenv_file |-> IF asks /\ env_file # None THEN entered ELSE env_file]

\* the parameters of `def main():` in cli.py
cli_main_parameters == {}

\* Calling a function that has `parameters` and no **kwargs with the keyword
\* arguments `keywords`: a keyword that is no parameter is a TypeError.
Call(parameters, keywords) ==
    IF keywords \subseteq parameters THEN [raised |-> ""] ELSE [raised |-> "TypeError"]

\* what interactive.main returns, which exit() makes the process's status
InteractiveReturn(raised) == IF raised = "" THEN 0 ELSE 1

InteractiveInit ==
    /\ HostInit
    /\ files = {}
    /\ NoDownloads
    /\ downloader = NoObject
    /\ transcriber = NoObject
    /\ ret = NoCall
    /\ sample = NoObject
    /\ pc = "import"
    /\ args = NoObject
    /\ audio_path = Unbound
    /\ transcript = Unbound
    /\ outfile \in OutfilesBefore
    /\ status = Unbound
    /\ stderr = <<>>
    /\ log = <<>>

\* the imports at the head of interactive.py; without python-dotenv the
\* ImportError leaves the script with a traceback
InteractiveImport ==
    /\ pc = "import"
    /\ LET raised == IF "dotenv" \in installed THEN "" ELSE "ImportError"
       IN  /\ ret' = [op |-> "import", raised |-> raised]
           /\ pc' = IF raised = "" THEN "load_dotenv" ELSE "done"
           /\ status' = IF raised = "" THEN status ELSE <<InteractiveReturn(raised)>>
           /\ stderr' = IF raised = "" THEN stderr ELSE Append(stderr, "Traceback: " \o raised)
    /\ UNCHANGED <<hostVars, environ, files, attempted, fetched, downloader,
                   transcriber, sample, args, audio_path, transcript, outfile, log>>

\* main: load_dotenv()
InteractiveLoadDotenv ==
    /\ pc = "load_dotenv"
    /\ environ' = load_dotenv(environ)
    /\ ret' = [op |-> "load_dotenv", raised |-> ""]
    /\ pc' = "prompt"
    /\ UNCHANGED <<hostVars, files, attempted, fetched, downloader, transcriber,
                   sample, args, audio_path, transcript, outfile, status, stderr, log>>

\* main: args = prompt_for_input(); namespace_args = argparse.Namespace(**args)
InteractivePrompt ==
    /\ pc = "prompt"
    /\ \E typed \in TypedAnswers, interrupted \in BOOLEAN, readable \in BOOLEAN :
        LET r == prompt_for_input(typed, environ, dotenv_file, interrupted, readable)
        IN  /\ ret' = [op |-> "prompt_for_input", raised |-> r.raised, typed |-> typed]
            /\ environ' = r.environ
            /\ dotenv_file' = r.dotenv_file
            /\ args' = r.value
            /\ pc' = IF r.raised = "" THEN "call" ELSE "done"
            /\ status' = IF r.raised = "" THEN status ELSE <<InteractiveReturn(r.raised)>>
            /\ stderr' = IF r.raised = "" THEN stderr
                         ELSE IF r.raised = "KeyboardInterrupt"
                         THEN Append(stderr, "Operation cancelled by user")
                         ELSE Append(stderr, "Error: " \o r.raised)
    /\ UNCHANGED <<ffmpeg, installed, files, attempted, fetched, downloader,
                   transcriber, sample, audio_path, transcript, outfile, log>>

\* main: cli_main(args=namespace_args).  Were the call to bind, cli.main's
\* body would start at its preflight step.
InteractiveCall ==
    /\ pc = "call"
    /\ LET r == Call(cli_main_parameters, {"args"})
       IN  /\ ret' = [op |-> "cli_main", raised |-> r.raised, keywords |-> {"args"}]
           /\ pc' = IF r.raised = "" THEN "preflight" ELSE "done"
           /\ status' = IF r.raised = "" THEN status ELSE <<InteractiveReturn(r.raised)>>
           /\ stderr' = IF r.raised = "" THEN stderr ELSE Append(stderr, "Error: " \o r.raised)
    /\ UNCHANGED <<hostVars, environ, files, attempted, fetched, downloader,
                   transcriber, sample, args, audio_path, transcript, outfile, log>>

InteractiveNext ==
    \/ InteractiveImport
    \/ InteractiveLoadDotenv
    \/ InteractivePrompt
    \/ InteractiveCall

InteractiveSpec == InteractiveInit /\ [][InteractiveNext]_vars

\* C13: once prompt_for_input has collected the parameters, the run goes
\* through the pipeline of cli.main (download, transcribe, cleanup, write)
\* with those parameters, and exits 0 exactly when the pipeline completed and
\* wrote the transcript.
C13_InteractiveRunsPipeline ==
    (pc = "done" /\ args # NoObject)
        => /\ Started("download")
           /\ status = <<0>> <=> (Returned("write") /\ outfile.state = "full")

====
